---- MODULE Spec2Model ----
(***************************************************************************)
(* A model of the TCP layer of libtins (src/src/tcp.cpp): the fixed header *)
(* kept as the 20 bytes of the tcphdr struct, the option list with its two *)
(* size counters, the decoding constructor, write_serialization, the typed *)
(* SACK helpers and the copy operations.                                   *)
(***************************************************************************)
EXTENDS Integers, Sequences, FiniteSets, TLC

VARIABLES tcp, other, last

vars == <<tcp, other, last>>

(***************************************************************************)
(* Program constants.                                                      *)
(***************************************************************************)
\* sizeof(tcphdr)
HDR == 20
\* TCP::DEFAULT_WINDOW
DEFAULT_WINDOW == 32678
\* the width of the tcphdr::doff bit field, as a modulus (4 bits)
DoffMod == 16
\* enum Options
EOL == 0
NOP == 1
MSS == 2
WSCALE == 3
SACK_OK == 4
SACK == 5
TSOPT == 8
ALTCHK == 14
\* Constants::IP::PROTO_TCP
PROTO_TCP == 6

(***************************************************************************)
(* Bounds of the model.                                                    *)
(***************************************************************************)
\* the most options one segment holds in the model
MaxOpts == 2
\* the length of the long value the generic add_option is tried with
BigLen == 40
\* the largest byte value of the alphabet decode's option bytes are drawn from
MaxOptByte == 4
\* the number of edges of the long SACK list
ManyEdges == 64

(***************************************************************************)
(* Fixed-width arithmetic and memory.                                      *)
(***************************************************************************)
U8(x) == x % 256
U16(x) == x % 65536

\* Utils::net_to_host_s on a little-endian host: the two bytes swapped
net_to_host_s(x) == ((x % 256) * 256) + ((x \div 256) % 256)

\* A uint32_t is held as its four bytes in the memory of a little-endian host,
\* least significant first (the model checker's integers end at 2^31 - 1).
Word32(x) == <<x % 256, (x \div 256) % 256, (x \div 65536) % 256, (x \div 16777216) % 256>>
Value32(w) == w[1] + (256 * w[2]) + (65536 * w[3]) + (16777216 * w[4])

\* Utils::net_to_host_l on a little-endian host: the four bytes reversed
net_to_host_l(w) == <<w[4], w[3], w[2], w[1]>>

\* a uint16_t as it lies in the memory of a little-endian host
Mem16(v) == <<v % 256, (v \div 256) % 256>>
Load16(b) == b[1] + (256 * b[2])

Fill(n, v) == [i \in 1..n |-> v]

\* bytes [from, from+n) of a 0-indexed C buffer held as a sequence
Bytes(buf, from, n) == SubSeq(buf, from + 1, from + n)

\* a sequence with the bytes at 0-indexed offset `at` overwritten
Poke(s, at, bs) == [i \in 1..Len(s) |-> IF i > at /\ i <= at + Len(bs) THEN bs[i - at] ELSE s[i]]

(***************************************************************************)
(* The tcphdr struct as 20 bytes of memory, and its accessors.             *)
(***************************************************************************)
\* the doff bit field (the high nibble of byte 12)
data_offset(hdr) == hdr[13] \div 16
set_doff(hdr, new_doff) == Poke(hdr, 12, <<((new_doff % DoffMod) * 16) + (hdr[13] % 16)>>)

\* the check field as the uint16_t the host reads: zero iff both bytes are zero
check_field(hdr) == Load16(Bytes(hdr, 16, 2))
set_check_field(hdr, v) == Poke(hdr, 16, Mem16(v))

\* TCP::check(new_check)
check(seg, new_check) == [seg EXCEPT !.hdr = set_check_field(@, net_to_host_s(new_check))]

\* TCP::data_offset(new_doff)
set_data_offset(seg, new_doff) == [seg EXCEPT !.hdr = set_doff(@, new_doff)]

\* TCP::TCP(dport, sport): zeroed header, ports, doff 5, default window, no options
NewTCP(dport, sport) ==
    LET z == Fill(HDR, 0)
        h1 == Poke(z, 2, Mem16(net_to_host_s(dport)))
        h2 == Poke(h1, 0, Mem16(net_to_host_s(sport)))
        h3 == set_doff(h2, HDR \div 4)
        h4 == Poke(h3, 14, Mem16(net_to_host_s(DEFAULT_WINDOW)))
    IN  [hdr |-> h4, options |-> <<>>, options_size |-> 0,
         total_options_size |-> 0, payload |-> <<>>]

(***************************************************************************)
(* Options.                                                                *)
(***************************************************************************)
\* add_option with the padding added even when the size is already aligned
add_option_always_pads(seg, tcp_option, length, data) ==
    LET new_data == IF length # 0 THEN Bytes(data, 0, length) ELSE <<>>
        os == seg.options_size + length + 2
        padding == os % 4
    IN  [seg EXCEPT
            !.options = Append(@, [option |-> tcp_option, length |-> length, value |-> new_data]),
            !.options_size = os,
            !.total_options_size = os - padding + 4]

\* TCP::add_option: the value copied, the option appended, the counters updated
add_option(seg, tcp_option, length, data) ==
    LET new_data == IF length # 0 THEN Bytes(data, 0, length) ELSE <<>>
        os == seg.options_size + length + 2
        padding == os % 4
    IN  [seg EXCEPT
            !.options = Append(@, [option |-> tcp_option, length |-> length, value |-> new_data]),
            !.options_size = os,
            !.total_options_size = IF padding # 0 THEN os - padding + 4 ELSE os]

\* TCP::header_size
header_size(seg) == HDR + seg.total_options_size

\* PDU::size: this header and the inner RawPDU
size(seg) == header_size(seg) + Len(seg.payload)

\* TCP::search_option: the index of the first option of kind opt, 0 when none
search_option(seg, opt) ==
    LET hits == {i \in 1..Len(seg.options) : seg.options[i].option = opt}
    IN  IF hits = {} THEN 0 ELSE CHOOSE i \in hits : \A j \in hits : i <= j
(***************************************************************************)
(* The decoding constructor TCP(buffer, total_sz).                         *)
(***************************************************************************)
\* One pass of `for(i = 0; i < 2 && args[0] != NOP; ++i)`: the kind byte and,
\* unless the kind is NOP, the byte after it, each read only while index has
\* not reached header_end.
ReadArgs(buf, index, header_end, args0, args1) ==
    IF args0 = NOP
    THEN [threw |-> FALSE, args0 |-> args0, args1 |-> args1, index |-> index]
    ELSE IF index = header_end
    THEN [threw |-> TRUE, args0 |-> args0, args1 |-> args1, index |-> index]
    ELSE LET a0 == buf[index + 1]
         IN  IF a0 = NOP
             THEN [threw |-> FALSE, args0 |-> a0, args1 |-> args1, index |-> index + 1]
             ELSE IF index + 1 = header_end
             THEN [threw |-> TRUE, args0 |-> a0, args1 |-> args1, index |-> index + 1]
             ELSE [threw |-> FALSE, args0 |-> a0, args1 |-> buf[index + 2], index |-> index + 2]

\* `while(index < header_end)`: buf is the buffer past the fixed header
RECURSIVE ScanOptions(_, _, _, _, _, _)
ScanOptions(buf, index, header_end, args0, args1, seg) ==
    IF ~(index < header_end)
    THEN [threw |-> FALSE, seg |-> seg, index |-> index]
    ELSE LET r == ReadArgs(buf, index, header_end, args0, args1)
         IN  IF r.threw
             THEN [threw |-> TRUE, seg |-> seg, index |-> r.index]
             ELSE IF r.args0 # NOP /\ r.args0 # EOL
             THEN LET len == U8(r.args1 - 2)
                  IN  IF header_end - r.index < len
                      THEN [threw |-> TRUE, seg |-> seg, index |-> r.index]
                      ELSE ScanOptions(buf, r.index + len, header_end, r.args0, len,
                                       add_option(seg, r.args0, len, Bytes(buf, r.index, len)))
             ELSE IF r.args0 = EOL
             THEN ScanOptions(buf, header_end, header_end, r.args0, r.args1, seg)
             ELSE ScanOptions(buf, r.index, header_end, 0, r.args1, seg)

\* `(data_offset() * sizeof(uint32_t)) - sizeof(tcphdr)` stored in a uint32_t:
\* below five words it wraps to 2^32 - (20 - 4 * doff), which is more than the
\* total_sz - 20 of any uint32_t total_sz
header_end_wraps(hdr) == data_offset(hdr) * 4 < HDR

\* TCP::TCP(const uint8_t *buffer, uint32_t total_sz); a throw leaves no object
DecodeTCP(buffer, total_sz) ==
    IF total_sz < HDR
    THEN [threw |-> TRUE, seg |-> NewTCP(0, 0)]
    ELSE LET hdr == Bytes(buffer, 0, HDR)
             buf == Bytes(buffer, HDR, total_sz - HDR)
             rest == total_sz - HDR
             header_end == data_offset(hdr) * 4 - HDR
             seg0 == [hdr |-> hdr, options |-> <<>>, options_size |-> 0,
                      total_options_size |-> 0, payload |-> <<>>]
         IN  IF ~header_end_wraps(hdr) /\ rest >= header_end
             THEN LET r == ScanOptions(buf, 0, header_end, 0, 0, seg0)
                  IN  IF r.threw
                      THEN [threw |-> TRUE, seg |-> NewTCP(0, 0)]
                      ELSE [threw |-> FALSE,
                            seg |-> [r.seg EXCEPT !.payload = Bytes(buf, r.index, rest - r.index)]]
             ELSE [threw |-> FALSE, seg |-> [seg0 EXCEPT !.payload = buf]]
(***************************************************************************)
(* Serialization.  A destination buffer is its bytes and the set of the    *)
(* 0-indexed offsets written so far.                                       *)
(***************************************************************************)
Write(b, at, bs) ==
    [bytes |-> Poke(b.bytes, at, bs),
     written |-> b.written \cup {i \in at..(at + Len(bs) - 1) : i < Len(b.bytes)}]

\* TCPOption::write with the value length written as the length byte
option_write_value_length(opt, b, pos) ==
    IF opt.option = 1
    THEN [b |-> Write(b, pos, <<opt.option>>), pos |-> pos + 1]
    ELSE [b |-> Write(b, pos, <<opt.option, U8(opt.length)>> \o opt.value),
          pos |-> pos + U8(opt.length + 2)]

\* TCPOption::write at offset pos: the buffer and the returned pointer
option_write(opt, b, pos) ==
    IF opt.option = 1
    THEN [b |-> Write(b, pos, <<opt.option>>), pos |-> pos + 1]
    ELSE LET lenbyte == U8(opt.length + 2)
         IN  [b |-> Write(b, pos, <<opt.option, lenbyte>> \o opt.value), pos |-> pos + lenbyte]

\* `for(it = _options.begin(); ...) buffer = it->write(buffer)`
RECURSIVE write_options(_, _, _, _)
write_options(options, i, b, pos) ==
    IF i > Len(options)
    THEN [b |-> b, pos |-> pos]
    ELSE LET r == option_write(options[i], b, pos)
         IN  write_options(options, i + 1, r.b, r.pos)

\* `while(padding < _total_options_size) { *(buffer++) = 1; padding++; }`,
\* padding a uint8_t
RECURSIVE write_padding(_, _, _, _)
write_padding(b, pos, padding, total_options_size) ==
    IF ~(padding < total_options_size)
    THEN b
    ELSE write_padding(Write(b, pos, <<1>>), pos + 1, U8(padding + 1), total_options_size)

\* Utils::do_checksum: the sum of the big-endian 16-bit words of the bytes, an
\* odd last byte taken as the high byte of a word
RECURSIVE do_checksum(_, _)
do_checksum(bytes, i) ==
    IF i > Len(bytes) THEN 0
    ELSE IF i = Len(bytes) THEN bytes[i] * 256
    ELSE (bytes[i] * 256) + bytes[i + 1] + do_checksum(bytes, i + 2)

\* Utils::pseudoheader_checksum: the words of both addresses, the protocol
\* and the length
pseudoheader_checksum(src, dst, len, proto) ==
    (src \div 65536) + (src % 65536) + (dst \div 65536) + (dst % 65536) + proto + len

\* `while(checksum >> 16) checksum = (checksum & 0xffff) + (checksum >> 16)`
RECURSIVE fold_carries(_)
fold_carries(checksum) ==
    IF checksum \div 65536 # 0
    THEN fold_carries((checksum % 65536) + (checksum \div 65536))
    ELSE checksum

\* the parents a segment is serialized under
NoParent == [ip |-> FALSE, present |-> FALSE, src |-> 0, dst |-> 0]
RawParent == [ip |-> FALSE, present |-> TRUE, src |-> 0, dst |-> 0]
\* an IP layer, 10.0.0.1 -> 10.0.0.2
IPParent == [ip |-> TRUE, present |-> TRUE, src |-> 167772161, dst |-> 167772162]
Parents == {NoParent, RawParent, IPParent}

\* the checksum branch without the test of the parent
checksum_stage_any_parent(seg, b, parent) ==
    IF check_field(seg.hdr) = 0
    THEN LET checksum == fold_carries(
                 pseudoheader_checksum(parent.src, parent.dst, size(seg), PROTO_TCP)
                 + do_checksum(b.bytes, 1))
         IN  Write(b, 16, Mem16(net_to_host_s(65535 - U16(checksum))))
    ELSE b

\* `if(!_tcp.check && ip_packet) { ... }`: the checksum computed over the
\* written bytes and stored into the buffer's header
checksum_stage(seg, b, parent) ==
    IF check_field(seg.hdr) = 0 /\ parent.ip
    THEN LET checksum == fold_carries(
                 pseudoheader_checksum(parent.src, parent.dst, size(seg), PROTO_TCP)
                 + do_checksum(b.bytes, 1))
         \* the low 16 bits of ~checksum
         IN  Write(b, 16, Mem16(net_to_host_s(65535 - U16(checksum))))
    ELSE b

\* write_serialization without the final `_tcp.check = 0`
write_serialization_keeps_check(seg, buffer, parent) ==
    LET hdr == set_doff(seg.hdr, (HDR + seg.total_options_size) \div 4)
        seg1 == [seg EXCEPT !.hdr = hdr]
        w == write_options(seg.options, 1, buffer, HDR)
        b1 == IF seg.options_size < seg.total_options_size
              THEN write_padding(w.b, w.pos, U8(seg.options_size), seg.total_options_size)
              ELSE w.b
        b2 == Write(b1, 0, hdr)
    IN  [seg |-> seg1, b |-> checksum_stage(seg1, b2, parent)]

\* TCP::write_serialization(buffer, total_sz, parent): doff recomputed, the
\* options and the padding written, the header copied in, the checksum
\* computed when none is set and the parent is an IP, the check field zeroed
write_serialization(seg, buffer, parent) ==
    LET hdr == set_doff(seg.hdr, (HDR + seg.total_options_size) \div 4)
        seg1 == [seg EXCEPT !.hdr = hdr]
        w == write_options(seg.options, 1, buffer, HDR)
        b1 == IF seg.options_size < seg.total_options_size
              THEN write_padding(w.b, w.pos, U8(seg.options_size), seg.total_options_size)
              ELSE w.b
        b2 == Write(b1, 0, hdr)
        b3 == checksum_stage(seg1, b2, parent)
    IN  [seg |-> [seg1 EXCEPT !.hdr = set_check_field(@, 0)], b |-> b3]

\* PDU::serialize: a fresh buffer of size() bytes, the inner RawPDU written
\* first at header_size(), then write_serialization
serialize(seg, parent, garbage) ==
    LET fresh == [bytes |-> Fill(header_size(seg), garbage) \o seg.payload, written |-> {}]
    IN  write_serialization(seg, fresh, parent)
(***************************************************************************)
(* The typed option helpers.                                               *)
(***************************************************************************)
\* `*(ptr++) = Utils::net_to_host_l(*it)` over the list: the array as bytes
EdgesMem(edges) ==
    [i \in 1..(4 * Len(edges)) |->
        net_to_host_l(Word32(edges[((i - 1) \div 4) + 1]))[((i - 1) % 4) + 1]]

\* add_sack_option with the number of edges as the length
add_sack_option_edge_count(seg, edges) == add_option(seg, SACK, U8(Len(edges)), EdgesMem(edges))

\* TCP::add_sack_option: the edges in network order, the length cast to uint8_t
add_sack_option(seg, edges) == add_option(seg, SACK, U8(4 * Len(edges)), EdgesMem(edges))

\* `while(ptr < end) edges->push_back(Utils::net_to_host_l(*(ptr++)))`
ReadEdges(value, n) ==
    [k \in 1..n |-> Value32(net_to_host_l(Bytes(value, 4 * (k - 1), 4)))]

\* TCP::search_sack_option(edges): the result and the list after the call
search_sack_option(seg, edges) ==
    LET i == search_option(seg, SACK)
    IN  IF i = 0 \/ seg.options[i].length % 4 # 0
        THEN [found |-> FALSE, edges |-> edges]
        ELSE [found |-> TRUE,
              edges |-> edges \o ReadEdges(seg.options[i].value, seg.options[i].length \div 4)]

\* TCP::add_mss_option
add_mss_option(seg, value) == add_option(seg, MSS, 2, Mem16(net_to_host_s(value)))

\* TCP::add_winscale_option
add_winscale_option(seg, value) == add_option(seg, WSCALE, 1, <<value>>)

\* TCP::add_sack_permitted_option
add_sack_permitted_option(seg) == add_option(seg, SACK_OK, 0, <<>>)

\* TCP::add_timestamp_option: reply in the high half of the uint64_t
add_timestamp_option(seg, value, reply) ==
    add_option(seg, TSOPT, 8, net_to_host_l(Word32(value)) \o net_to_host_l(Word32(reply)))

\* TCP::add_altchecksum_option
add_altchecksum_option(seg, value) == add_option(seg, ALTCHK, 1, <<value>>)

(***************************************************************************)
(* Copies.                                                                 *)
(***************************************************************************)
\* TCP::copy_fields: the header copied, every option of other pushed onto
\* _options, both counters taken from other
copy_fields(self, from) ==
    [self EXCEPT !.hdr = from.hdr,
                 !.options = @ \o [i \in 1..Len(from.options) |->
                                     [option |-> from.options[i].option,
                                      length |-> from.options[i].length,
                                      value |-> from.options[i].value]],
                 !.options_size = from.options_size,
                 !.total_options_size = from.total_options_size]

\* TCP::TCP(const TCP &other): PDU(other) copies the inner PDU, _options starts empty
copy_construct(from) ==
    copy_fields([hdr |-> Fill(HDR, 0), options |-> <<>>, options_size |-> 0,
                 total_options_size |-> 0, payload |-> from.payload], from)

\* TCP::operator=: PDU::operator= copies the inner PDU, then copy_fields on *this
assign(self, from) == copy_fields([self EXCEPT !.payload = from.payload], from)

\* TCP::clone_pdu: a default TCP, then copy_fields
clone_pdu(self) == copy_fields(NewTCP(0, 0), self)
(***************************************************************************)
(* Inputs.                                                                 *)
(***************************************************************************)
RECURSIVE Strings(_, _)
Strings(n, alphabet) ==
    IF n = 0 THEN {<<>>}
    ELSE {<<a>> \o t : a \in alphabet, t \in Strings(n - 1, alphabet)}

\* the fixed header of a segment on the wire: ports 443 -> 80, the given
\* data offset and checksum bytes
WireHeader(doff, chk) == Poke(set_doff(NewTCP(80, 443).hdr, doff), 16, chk)

\* a few buffers: too short for the header, no options, an MSS option with a
\* payload, NOPs closed by an EOL, timestamps and SACK-permitted, a two-edge
\* SACK with filler, a SACK of length 3, a data offset of 4 and of 7 over
\* four bytes
ListedBuffers ==
    {Fill(HDR - 1, 0),
     WireHeader(5, <<0, 0>>),
     WireHeader(6, <<190, 239>>) \o <<2, 4, 5, 180, 222, 173>>,
     WireHeader(6, <<0, 0>>) \o <<1, 1, 1, 0>>,
     WireHeader(8, <<190, 239>>) \o <<8, 10, 0, 0, 0, 1, 0, 0, 0, 2, 4, 2>>,
     WireHeader(8, <<0, 0>>) \o <<5, 10, 0, 0, 0, 100, 0, 0, 0, 200, 1, 1>>,
     WireHeader(7, <<0, 0>>) \o <<5, 5, 9, 9, 9, 0, 0, 0>>,
     WireHeader(4, <<190, 239>>) \o <<2, 4, 5, 180>>,
     WireHeader(7, <<190, 239>>) \o <<2, 4, 5, 180>>}

\* every buffer of a fixed header with a data offset of 6 and a zero or a set
\* checksum, followed by four bytes over the alphabet and by no payload or two
\* bytes of it; and the headers with a data offset of 4, 5, 7 and 8 followed
\* by nothing, by an MSS option, or by three NOPs and an EOL
AllBuffers ==
    {WireHeader(6, chk) \o t \o pl :
        chk \in {<<0, 0>>, <<190, 239>>},
        t \in Strings(4, 0..MaxOptByte), pl \in {<<>>, <<222, 173>>}}
    \cup {WireHeader(doff, chk) \o t :
        doff \in {4, 5, 7, 8}, chk \in {<<0, 0>>, <<190, 239>>},
        t \in {<<>>, <<2, 4, 5, 180>>, <<1, 1, 1, 0>>}}

\* the (kind, length) pairs the generic add_option is called with; the value is
\* `length` bytes of 7
GenericOpts == {<<EOL, 0>>, <<NOP, 0>>, <<SACK, 3>>, <<SACK, BigLen>>}

\* the edge lists add_sack_option is called with: none, two edges, an edge
\* with four different bytes, and the lists of ManyEdges - 1 and ManyEdges edges
EdgeLists ==
    {<<>>, <<100, 200>>, <<16909060>>,
     [i \in 1..(ManyEdges - 1) |-> i], [i \in 1..ManyEdges |-> i]}

\* what an uninitialized destination buffer may hold
Garbage == {0, 170}

(***************************************************************************)
(* The state machine.  tcp is the segment under test, other a second       *)
(* instance; last records the last operation, its inputs and its result.   *)
(***************************************************************************)
Init ==
    /\ tcp = NewTCP(80, 443)
    /\ other = NewTCP(0, 0)
    /\ last = [op |-> "construct"]

\* a throwing constructor leaves no segment to call anything on
Constructed == ~(last.op = "decode" /\ last.threw)

\* The segment is constructed by TCP(buffer, total_sz) instead of by
\* TCP(dport, sport): a constructor, so the first operation only.  A throw
\* constructs nothing.
DecodeFrom(buffers) ==
    /\ last.op = "construct"
    /\ \E buffer \in buffers :
        LET r == DecodeTCP(buffer, Len(buffer))
        IN  /\ r.threw \/ Len(r.seg.options) <= MaxOpts
            /\ tcp' = IF r.threw THEN tcp ELSE r.seg
            /\ last' = [op |-> "decode", buffer |-> buffer, threw |-> r.threw]
            /\ UNCHANGED other

AddOption ==
    /\ Constructed
    /\ Len(tcp.options) < MaxOpts
    /\ \E o \in GenericOpts :
        /\ tcp' = add_option(tcp, o[1], o[2], Fill(o[2], 7))
        /\ last' = [op |-> "add_option"]
    /\ UNCHANGED other

AddMss ==
    /\ Constructed
    /\ Len(tcp.options) < MaxOpts
    /\ tcp' = add_mss_option(tcp, 1460)
    /\ last' = [op |-> "add_option"]
    /\ UNCHANGED other

AddWinscale ==
    /\ Constructed
    /\ Len(tcp.options) < MaxOpts
    /\ tcp' = add_winscale_option(tcp, 7)
    /\ last' = [op |-> "add_option"]
    /\ UNCHANGED other

AddSackPermitted ==
    /\ Constructed
    /\ Len(tcp.options) < MaxOpts
    /\ tcp' = add_sack_permitted_option(tcp)
    /\ last' = [op |-> "add_option"]
    /\ UNCHANGED other

AddSack ==
    /\ Constructed
    /\ Len(tcp.options) < MaxOpts
    /\ \E edges \in EdgeLists :
        /\ tcp' = add_sack_option(tcp, edges)
        /\ last' = [op |-> "add_sack_option", edges |-> edges,
                    had_sack |-> search_option(tcp, SACK) # 0]
    /\ UNCHANGED other

AddTimestamp ==
    /\ Constructed
    /\ Len(tcp.options) < MaxOpts
    /\ tcp' = add_timestamp_option(tcp, 1, 2)
    /\ last' = [op |-> "add_option"]
    /\ UNCHANGED other

AddAltChecksum ==
    /\ Constructed
    /\ Len(tcp.options) < MaxOpts
    /\ tcp' = add_altchecksum_option(tcp, 1)
    /\ last' = [op |-> "add_option"]
    /\ UNCHANGED other

\* tcp.search_sack_option(&edges) with an empty list; added is the list the
\* call before this one gave add_sack_option, when that was the first SACK
SearchSack ==
    /\ Constructed
    /\ last' = [op |-> "search_sack_option", result |-> search_sack_option(tcp, <<>>),
                after_add |-> last.op = "add_sack_option" /\ ~last.had_sack,
                added |-> IF last.op = "add_sack_option" THEN last.edges ELSE <<>>]
    /\ UNCHANGED <<tcp, other>>

SetCheck ==
    /\ Constructed
    /\ \E v \in {0, 4660} :
        /\ tcp' = check(tcp, v)
        /\ last' = [op |-> "check"]
    /\ UNCHANGED other

SetDataOffset ==
    /\ Constructed
    /\ \E d \in {15} :
        /\ tcp' = set_data_offset(tcp, d)
        /\ last' = [op |-> "data_offset"]
    /\ UNCHANGED other

\* tcp.serialize(...) under a parent; decoded_from is the buffer tcp was just
\* decoded from, when the call before this one was that decode, and
\* after_serialize says that the call before this one was a serialize
Serialize ==
    /\ Constructed
    /\ \E parent \in Parents, garbage \in Garbage :
        LET r == serialize(tcp, parent, garbage)
        IN  /\ tcp' = r.seg
            /\ last' = [op |-> "serialize", out |-> r.b, parent |-> parent,
                        pre_check |-> check_field(tcp.hdr),
                        after_serialize |-> last.op = "serialize",
                        decoded_from |-> IF last.op = "decode" /\ ~last.threw
                                         THEN last.buffer ELSE <<>>]
            /\ UNCHANGED other

\* other = TCP(tcp)
CopyConstruct ==
    /\ Constructed
    /\ other' = copy_construct(tcp)
    /\ last' = [op |-> "copy"]
    /\ UNCHANGED tcp

\* tcp = other
Assign ==
    /\ Constructed
    /\ Len(tcp.options) + Len(other.options) <= MaxOpts + 1
    /\ tcp' = assign(tcp, other)
    /\ last' = [op |-> "assign"]
    /\ UNCHANGED other

\* other = tcp.clone_pdu()
Clone ==
    /\ Constructed
    /\ other' = clone_pdu(tcp)
    /\ last' = [op |-> "clone"]
    /\ UNCHANGED tcp

Decode == DecodeFrom(ListedBuffers)

DecodeAll == DecodeFrom(AllBuffers)

\* a segment built, given a checksum and a data offset, and serialized
Next ==
    \/ Decode
    \/ AddOption
    \/ AddMss
    \/ SetCheck
    \/ SetDataOffset
    \/ Serialize

Spec == Init /\ [][Next]_vars

\* the option list: every way of inserting an option, and the SACK search
NextOptions ==
    \/ Decode
    \/ AddOption
    \/ AddMss
    \/ AddWinscale
    \/ AddSackPermitted
    \/ AddSack
    \/ AddTimestamp
    \/ AddAltChecksum
    \/ SearchSack

SpecOptions == Init /\ [][NextOptions]_vars

\* the decoder over every buffer of AllBuffers, and what the result serializes to
NextDecode ==
    \/ DecodeAll
    \/ Serialize

SpecDecode == Init /\ [][NextDecode]_vars

\* the copy operations, on segments built with add_option and decode
NextCopy ==
    \/ Decode
    \/ AddOption
    \/ AddMss
    \/ CopyConstruct
    \/ Assign
    \/ Clone

SpecCopy == Init /\ [][NextCopy]_vars

(***************************************************************************)
(* The decoder's claims.                                                   *)
(***************************************************************************)
\* the bytes of a buffer's options region as its data offset declares it
DeclaredRegion(buffer) == data_offset(Bytes(buffer, 0, HDR)) * 4 - HDR

\* The option scan as section 4.2 of the specification words it, over a region
\* (i is the 1-indexed cursor): NO_OP skipped, END_OF_OPTIONS ends the scan, any
\* other kind is followed by its total length and its value.
RECURSIVE RefScan(_, _, _, _)
RefScan(region, i, opts, filler) ==
    IF i > Len(region)
    THEN [ok |-> TRUE, eol |-> FALSE, options |-> opts, filler |-> filler]
    ELSE IF region[i] = NOP THEN RefScan(region, i + 1, opts, TRUE)
    ELSE IF region[i] = EOL
    THEN [ok |-> TRUE, eol |-> TRUE, options |-> opts, filler |-> TRUE]
    ELSE IF i + 1 > Len(region) \/ region[i + 1] < 2 \/ i + region[i + 1] - 1 > Len(region)
    THEN [ok |-> FALSE, eol |-> FALSE, options |-> opts, filler |-> filler]
    ELSE RefScan(region, i + region[i + 1],
                 Append(opts, [option |-> region[i], length |-> region[i + 1] - 2,
                               value |-> SubSeq(region, i + 2, i + region[i + 1] - 1)]),
                 filler)

\* a buffer that holds its fixed header and the whole region it declares
Framed(buffer) ==
    /\ Len(buffer) >= HDR
    /\ DeclaredRegion(buffer) >= 0
    /\ DeclaredRegion(buffer) <= Len(buffer) - HDR

RefOptions(buffer) == RefScan(Bytes(buffer, HDR, DeclaredRegion(buffer)), 1, <<>>, FALSE)

\* C1: decoding a buffer of n >= 20 bytes whose data offset declares more option
\* bytes (data_offset*4 - 20) than the n - 20 that follow the fixed header fails
\* with a framing error, and no segment is constructed.
C1_TruncatedRegionThrows ==
    (/\ last.op = "decode"
     /\ Len(last.buffer) >= HDR
     /\ DeclaredRegion(last.buffer) > Len(last.buffer) - HDR)
    => last.threw

\* C2: when the scan of the options region reads an END_OF_OPTIONS kind byte,
\* at any position of the region and also as its last byte, the decode
\* succeeds, the stored options are those parsed before that byte, and the rest
\* of the region is consumed as padding (the payload starts after the region).
C2_EolEndsScanCleanly ==
    (/\ last.op = "decode"
     /\ Framed(last.buffer)
     /\ RefOptions(last.buffer).ok
     /\ RefOptions(last.buffer).eol)
    => /\ ~last.threw
       /\ tcp.options = RefOptions(last.buffer).options
       /\ tcp.payload = SubSeq(last.buffer, HDR + DeclaredRegion(last.buffer) + 1,
                               Len(last.buffer))

\* a well-formed segment whose options fill the region with no NO_OP or
\* END_OF_OPTIONS filler
WellFormedExact(buffer) ==
    /\ Framed(buffer)
    /\ RefOptions(buffer).ok
    /\ ~RefOptions(buffer).filler

\* the checksum bytes of a serialized segment or a wire buffer, as the host
\* reads the field
WireCheck(bytes) == check_field(Bytes(bytes, 0, HDR))

\* C3: for well-formed segment bytes with a set (non-zero) checksum and options
\* without filler, decoding and then serializing once gives back the bytes.
C3_DecodeEncodeRoundTrip ==
    (/\ last.op = "serialize"
     /\ last.decoded_from # <<>>
     /\ WellFormedExact(last.decoded_from)
     /\ WireCheck(last.decoded_from) # 0)
    => last.out.bytes = last.decoded_from

\* C3's case: a decoded segment with an option and a payload was serialized
C3_Witness ==
    /\ last.op = "serialize"
    /\ last.decoded_from # <<>>
    /\ WellFormedExact(last.decoded_from)
    /\ WireCheck(last.decoded_from) # 0
    /\ Len(tcp.options) >= 1
    /\ Len(tcp.payload) >= 1
    /\ last.parent.ip
    /\ last.out.bytes = last.decoded_from
(***************************************************************************)
(* The claims on the option counters and on serialization.                 *)
(***************************************************************************)
\* C4: after any option insertions (add_option, the typed helpers, decode) the
\* counters satisfy 0 <= padded_size - raw_size <= 3 and padded_size % 4 = 0,
\* and header_size() is 20 + padded_size.
C4_PaddingCounters ==
    /\ 0 <= tcp.total_options_size - tcp.options_size
    /\ tcp.total_options_size - tcp.options_size <= 3
    /\ tcp.total_options_size % 4 = 0
    /\ header_size(tcp) = HDR + tcp.total_options_size

\* C4's case: two options inserted, three bytes of padding
C4_Witness ==
    /\ Len(tcp.options) = 2
    /\ last.op = "add_option"
    /\ tcp.total_options_size - tcp.options_size = 3

\* the options as the claim lays them out: kind, value length + 2, value
RECURSIVE EncodedOptions(_)
EncodedOptions(options) ==
    IF options = <<>> THEN <<>>
    ELSE <<Head(options).option, Head(options).length + 2>> \o Head(options).value
         \o EncodedOptions(Tail(options))

\* C5: serialize writes every byte of the header: the fixed header in [0, 20),
\* each stored option in order as kind, length byte (value length + 2) and
\* value, then NO_OP (1) up to 20 + padded_size, header_size() bytes in all,
\* for any options added with add_option (a NO_OP or END_OF_OPTIONS included).
C5_WholeHeaderWritten ==
    last.op = "serialize" =>
        /\ last.out.written = 0..(header_size(tcp) - 1)
        /\ Bytes(last.out.bytes, 0, 16) = Bytes(tcp.hdr, 0, 16)
        /\ Bytes(last.out.bytes, HDR, tcp.total_options_size)
             = EncodedOptions(tcp.options)
               \o Fill(tcp.total_options_size - Len(EncodedOptions(tcp.options)), 1)

\* C6: every serialize sets data_offset to (20 + padded_size) / 4 whatever was
\* there, and for every options list built with add_option that value is in
\* 5..15 and data_offset * 4 = header_size().
C6_DataOffsetInRange ==
    last.op = "serialize" =>
        /\ data_offset(last.out.bytes) = (HDR + tcp.total_options_size) \div 4
        /\ data_offset(tcp.hdr) = data_offset(last.out.bytes)
        /\ data_offset(last.out.bytes) >= 5
        /\ data_offset(last.out.bytes) <= 15
        /\ data_offset(last.out.bytes) * 4 = header_size(tcp)

\* the checksum of a serialized segment under an IP parent, computed from the
\* written bytes with the checksum field taken as zero
Recomputed(bytes, parent) ==
    65535 - fold_carries(pseudoheader_checksum(parent.src, parent.dst, Len(bytes), PROTO_TCP)
                         + do_checksum(Poke(bytes, 16, <<0, 0>>), 1))

\* the checksum field of the bytes as the big-endian number on the wire
WireCheckValue(bytes) == (bytes[17] * 256) + bytes[18]

\* C7: after every serialize the stored checksum field is zero, so a serialize
\* that directly follows another finds no checksum set and, under an IP parent,
\* emits the checksum recomputed from the bytes (zero under any other parent);
\* a set, non-zero checksum is emitted as it is by the serialize that finds it.
C7_ChecksumResets ==
    last.op = "serialize" =>
        /\ check_field(tcp.hdr) = 0
        /\ last.after_serialize => last.pre_check = 0
        /\ last.pre_check = 0 =>
              WireCheckValue(last.out.bytes)
                = IF last.parent.ip THEN Recomputed(last.out.bytes, last.parent) ELSE 0
        /\ last.pre_check # 0 => WireCheck(last.out.bytes) = last.pre_check

\* C7's case: a serialize right after a serialize, under an IP parent, with
\* options, a payload and a non-zero checksum in the bytes
C7_Witness ==
    /\ last.op = "serialize"
    /\ last.after_serialize
    /\ last.parent.ip
    /\ Len(tcp.options) >= 1
    /\ WireCheckValue(last.out.bytes) # 0
    /\ WireCheckValue(last.out.bytes) = Recomputed(last.out.bytes, last.parent)

\* C8 as claimed: with a parent that is absent or no IP layer, the checksum
\* field of the serialized bytes is zero.
C8_NoPseudoHeaderZeroChecksum ==
    (last.op = "serialize" /\ ~last.parent.ip) => WireCheck(last.out.bytes) = 0

\* C8 as amended: with a parent that is absent or no IP layer, the checksum
\* field of the serialized bytes is the stored checksum field: zero when none
\* is set, the set value otherwise.
C8_NoPseudoHeaderStoredChecksum ==
    (last.op = "serialize" /\ ~last.parent.ip) =>
        /\ WireCheck(last.out.bytes) = last.pre_check
        /\ last.pre_check = 0 => WireCheck(last.out.bytes) = 0

\* C8's case: no checksum set, no parent, options present, zero written
C8_Witness ==
    /\ last.op = "serialize"
    /\ ~last.parent.present
    /\ last.pre_check = 0
    /\ Len(tcp.options) >= 1
    /\ WireCheck(last.out.bytes) = 0

(***************************************************************************)
(* The SACK helpers.                                                       *)
(***************************************************************************)
\* the number of edges from which `(uint8_t)(sizeof(uint32_t) * edges.size())`
\* no longer is four times the number of edges
SackEdgeLimit == 64

\* the first stored SACK option has a length that is no multiple of 4
FirstSackMisaligned ==
    /\ search_option(tcp, SACK) # 0
    /\ tcp.options[search_option(tcp, SACK)].length % 4 # 0

\* C9 as claimed: for any list of edges, add_sack_option on a segment without a
\* SACK option and then search_sack_option into an empty list reports found and
\* gives the same edges in order; the search reports not-found when the first
\* stored SACK option's length is no multiple of 4.
C9_SackRoundTripAnyList ==
    last.op = "search_sack_option" =>
        /\ last.after_add => last.result = [found |-> TRUE, edges |-> last.added]
        /\ FirstSackMisaligned => ~last.result.found

\* C9 as amended: the same for any list of fewer than 64 edges.
C9_SackRoundTripShortList ==
    last.op = "search_sack_option" =>
        /\ (last.after_add /\ Len(last.added) < SackEdgeLimit)
              => last.result = [found |-> TRUE, edges |-> last.added]
        /\ FirstSackMisaligned => ~last.result.found

\* C9's case: two edges were added as the first SACK and searched
C9_Witness ==
    /\ last.op = "search_sack_option"
    /\ last.after_add
    /\ Len(last.added) = 2
    /\ last.result.found
    /\ last.result.edges = last.added

(***************************************************************************)
(* The copies.                                                             *)
(***************************************************************************)
RECURSIVE RawSize(_)
RawSize(options) ==
    IF options = <<>> THEN 0 ELSE Head(options).length + 2 + RawSize(Tail(options))

\* C10: through construction, decode, add_option, copy construction,
\* assignment (also onto a segment that holds options) and clone, raw_size is
\* the sum of length + 2 over the stored options, and after a copy or an
\* assignment the target's options equal the source's, in order.
C10_CopiesKeepOptions ==
    /\ tcp.options_size = RawSize(tcp.options)
    /\ other.options_size = RawSize(other.options)
    /\ last.op \in {"copy", "clone", "assign"} => tcp.options = other.options
====
